---------------------------- MODULE Spec2Model ----------------------------
(***************************************************************************)
(* Model of scripts/generate-ca.js: one invocation of the script is one    *)
(* atomic action (Run) over the files it reads and writes; the row loop of *)
(* buildSVG is a second, independent state machine (SpecSim).              *)
(*                                                                         *)
(* File names are sequences of character codes: a decimal digit is its     *)
(* value 0..9 and '-' is Dash, which sorts below every digit as it does in *)
(* UTF-16.  The fixed parts "rule-" and ".svg" are the same in every       *)
(* artifact name and are left out; whether a directory entry ends with     *)
(* ".svg" is the entry's svg field.                                        *)
(***************************************************************************)
EXTENDS Integers, Sequences, FiniteSets, TLC

\* ---- Config (generate-ca.js lines 8-21) ----
COLS == 201
ROWS == 100
LIBRARY_CAP == 50
SHOWN_CAP == 25

\* ---- bounds of the model ----
MaxRuns == 2
\* Math.random() is drawn from { k / RandSteps : k \in 0..RandSteps-1 }
RandSteps == 4
\* width of the timestamp part of a file name (fixed width in the source)
TsDigits == 2
\* rule numbers a run is started with (process.argv[2], or a draw from
\* INTERESTING_RULES, where 18 and 110 are the first and a later entry)
Rules == {18, 110}
\* number of artifacts in the library directory before the first modelled run
InitSizes == {0, 1, SHOWN_CAP + 1, LIBRARY_CAP - 1, LIBRARY_CAP, LIBRARY_CAP + 10}

VARIABLES
  clock,      \* wall clock (ms) of the latest run
  library,    \* libraryDir: sequence of entries [name, svg, body]
  shownFile,  \* shown.json: [kind |-> "absent" | "corrupt" | "json", arr |-> ...]
  displaySvg, \* ca.svg: the body copied there, or NoFile
  template,   \* README.template: sequence of lines
  readme,     \* README.md: sequence of lines, or NoFile
  runs,       \* number of runs so far
  run,        \* the script's locals when the latest run ended
  ruleNum, r, prev, curr   \* buildSVG: the rule, the row index, grid[r-1], grid[r]

simvars == <<ruleNum, r, prev, curr>>
vars == <<clock, library, shownFile, displaySvg, template, readme, runs, run,
          ruleNum, r, prev, curr>>

Dash == -1
NoFile == <<>>
NoName == <<>>

\* ---- sequence helpers ----
ToSet(s) == {s[i] : i \in DOMAIN s}

Min2(a, b) == IF a < b THEN a ELSE b

Max2(a, b) == IF a > b THEN a ELSE b

RECURSIVE Pow10(_)
Pow10(n) == IF n = 0 THEN 1 ELSE 10 * Pow10(n - 1)

\* String(n): the decimal digits of n >= 0, no leading zeros
RECURSIVE DecDigits(_)
DecDigits(n) == IF n < 10 THEN <<n>> ELSE Append(DecDigits(n \div 10), n % 10)

\* s.padStart(w, '0')
RECURSIVE PadStart(_, _)
PadStart(s, w) == IF Len(s) >= w THEN s ELSE PadStart(<<0>> \o s, w)

\* new Date().toISOString().replace(/[:.]/g,'-').slice(0,23): a fixed-width
\* field whose order as text is the order of the instants
Timestamp(now) == PadStart(DecDigits(now), TsDigits)

\* `rule-${String(newRule).padStart(3,'0')}-${timestamp}.svg`
NewFilename(rule, now) == PadStart(DecDigits(rule), 3) \o <<Dash>> \o Timestamp(now)

\* Array.prototype.sort() default comparison: by code units, a proper prefix first
RECURSIVE LexLess(_, _)
LexLess(a, b) ==
  IF a = <<>> THEN b # <<>>
  ELSE IF b = <<>> THEN FALSE
  ELSE IF Head(a) # Head(b) THEN Head(a) < Head(b)
  ELSE LexLess(Tail(a), Tail(b))

Sort(files) == SortSeq(files, LexLess)

\* picked.match(/rule-(\d+)/)[1]: the digits up to the first non-digit
RECURSIVE RuleDigits(_)
RuleDigits(name) ==
  IF name = <<>> \/ Head(name) = Dash THEN <<>>
  ELSE <<Head(name)>> \o RuleDigits(Tail(name))

\* parseInt(digits, 10)
RECURSIVE ParseInt(_)
ParseInt(d) == IF d = <<>> THEN 0 ELSE 10 * ParseInt(SubSeq(d, 1, Len(d) - 1)) + d[Len(d)]

PickedRule(picked) == ParseInt(RuleDigits(picked))

\* the text of an artifact depends on the rule alone (buildSVG is a pure
\* function of ruleNum); its label "Rule <ruleNum>" stands for it
BuildSVGLabel(rule) == rule

Entry(name, isSvg, body) == [name |-> name, svg |-> isSvg, body |-> body]

\* fs.writeFileSync(newFilepath, ...): replace the entry of that name, or add one
WriteFile(dir, name, body) ==
  IF \E i \in DOMAIN dir : dir[i].name = name /\ dir[i].svg
  THEN [i \in DOMAIN dir |->
          IF dir[i].name = name /\ dir[i].svg THEN Entry(name, TRUE, body) ELSE dir[i]]
  ELSE Append(dir, Entry(name, TRUE, body))

\* fs.readdirSync(libraryDir).filter(f => f.endsWith('.svg'))
SvgEntries(dir) == SelectSeq(dir, LAMBDA e : e.svg)

SvgNames(dir) ==
  LET entries == SvgEntries(dir)
  IN  [i \in DOMAIN entries |-> entries[i].name]

\* while (libraryFiles.length > LIBRARY_CAP) { oldest = libraryFiles.shift(); unlink }
RECURSIVE PruneLoop(_, _)
PruneLoop(files, pruned) ==
  IF Len(files) > LIBRARY_CAP
  THEN PruneLoop(Tail(files), Append(pruned, Head(files)))
  ELSE [files |-> files, pruned |-> pruned]

\* mutant of Prune: an `if` where the source has `while`
PruneOnce(files) ==
  IF Len(files) > LIBRARY_CAP
  THEN [files |-> Tail(files), pruned |-> <<Head(files)>>]
  ELSE [files |-> files, pruned |-> <<>>]

Prune(files) == PruneLoop(files, <<>>)

\* fs.unlinkSync of every pruned name
Unlink(dir, pruned) ==
  LET gone == ToSet(pruned)
  IN  SelectSeq(dir, LAMBDA e : ~(e.svg /\ e.name \in gone))

\* step 3: existsSync / JSON.parse with the catch that leaves shown = []
LoadShown(file) == IF file.kind = "json" THEN file.arr ELSE <<>>

\* mutant of Available: the filter without its negation
AvailableInverted(libraryFiles, shown) ==
  LET seen == ToSet(shown)
  IN  SelectSeq(libraryFiles, LAMBDA f : f \in seen)

\* step 4: libraryFiles.filter(f => !shown.includes(f))
Available(libraryFiles, shown) ==
  LET seen == ToSet(shown)
  IN  SelectSeq(libraryFiles, LAMBDA f : f \notin seen)

\* mutant of Pool: the pick ignores the history
PoolWholeLibrary(libraryFiles, shown) == libraryFiles

\* available.length > 0 ? available : libraryFiles
Pool(libraryFiles, shown) ==
  LET available == Available(libraryFiles, shown)
  IN  IF Len(available) > 0 THEN available ELSE libraryFiles

\* pool[Math.floor(Math.random() * pool.length)] with Math.random() = k / RandSteps
Picked(pool, k) == pool[((k * Len(pool)) \div RandSteps) + 1]

\* shown.slice(-n)
SliceLast(s, n) == SubSeq(s, Max2(Len(s) - n, 0) + 1, Len(s))

\* mutant of RecordShown: slice(0, SHOWN_CAP) keeps the oldest entries
RecordShownKeepFirst(shown, picked) ==
  LET pushed == Append(shown, picked)
  IN  IF Len(pushed) > SHOWN_CAP THEN SubSeq(pushed, 1, SHOWN_CAP) ELSE pushed

\* mutant of RecordShown: the push is missing
RecordShownUnpushed(shown, picked) ==
  IF Len(shown) > SHOWN_CAP THEN SliceLast(shown, SHOWN_CAP) ELSE shown

\* step 5: shown.push(picked); if (shown.length > SHOWN_CAP) shown = shown.slice(-SHOWN_CAP)
RecordShown(shown, picked) ==
  LET pushed == Append(shown, picked)
  IN  IF Len(pushed) > SHOWN_CAP THEN SliceLast(pushed, SHOWN_CAP) ELSE pushed

\* mutant of BodyOf: the copy takes the last directory entry, not the picked one
BodyOfLastEntry(dir, name) == dir[Len(dir)].body

\* fs.copyFileSync(path.join(libraryDir, picked), displaySvg)
BodyOf(dir, name) ==
  LET i == CHOOSE i \in DOMAIN dir : dir[i].name = name /\ dir[i].svg
  IN  dir[i].body

\* ---- step 7: the README ----
Line(kind, n) == [kind |-> kind, n |-> n]
BEGIN_MARKER == Line("begin", 0)
END_MARKER == Line("end", 0)
Blank == Line("blank", 0)
Text(n) == Line("text", n)

Injection(pickedRule) ==
  << BEGIN_MARKER, Blank, Line("image", pickedRule), Blank,
     Line("caption", pickedRule), Blank, END_MARKER >>

\* template.indexOf(marker): the first position, 1-based; 0 stands for -1
IndexOf(doc, marker) ==
  IF \E i \in DOMAIN doc : doc[i] = marker
  THEN CHOOSE i \in DOMAIN doc : doc[i] = marker /\ \A j \in 1..(i - 1) : doc[j] # marker
  ELSE 0

\* mutant of MarkersFound: `&&` where the source has `||`
MarkersFoundEither(doc) == IndexOf(doc, BEGIN_MARKER) # 0 \/ IndexOf(doc, END_MARKER) # 0

MarkersFound(doc) == IndexOf(doc, BEGIN_MARKER) # 0 /\ IndexOf(doc, END_MARKER) # 0

\* template.slice(0, beginIdx) + injection + template.slice(endIdx + END_MARKER.length)
Inject(doc, pickedRule) ==
  SubSeq(doc, 1, IndexOf(doc, BEGIN_MARKER) - 1)
    \o Injection(pickedRule)
    \o SubSeq(doc, IndexOf(doc, END_MARKER) + 1, Len(doc))

\* ---- the files before the first modelled run ----
GoodTemplate == << Text(1), BEGIN_MARKER, Text(2), END_MARKER, Text(3) >>
NoBeginTemplate == << Text(1), Text(2), END_MARKER, Text(3) >>
NoEndTemplate == << Text(1), BEGIN_MARKER, Text(2), Text(3) >>
Templates == {GoodTemplate, NoBeginTemplate, NoEndTemplate}

\* the rule of the i-th earlier run
InitRule(i) == IF i % 2 = 1 THEN 110 ELSE 30

\* n earlier runs at instants 1..n, each of which picked the artifact it had
\* just generated (always possible: a new name is in no history); a library
\* of more than LIBRARY_CAP artifacts is one that was filled from elsewhere
InitFile(i) == Entry(NewFilename(InitRule(i), i), TRUE, BuildSVGLabel(InitRule(i)))

\* the directory lists them by name: the even instants (rule 030), then the odd
InitLibrary(n) ==
  [j \in 1..n |-> IF j <= n \div 2 THEN InitFile(2 * j)
                  ELSE InitFile(2 * (j - n \div 2) - 1)]

InitShown(n) ==
  IF n = 0 THEN [kind |-> "absent", arr |-> <<>>]
  ELSE [kind |-> "json",
        arr |-> [i \in 1..Min2(n, SHOWN_CAP) |->
                   NewFilename(InitRule(n - Min2(n, SHOWN_CAP) + i), n - Min2(n, SHOWN_CAP) + i)]]

\* a directory entry that is no artifact (its name does not end with ".svg")
Placeholder == Entry(NoName, FALSE, 0)

NoRun ==
  [status |-> "none", exit |-> 0, newFilename |-> NoName, before |-> 0,
   pruned |-> <<>>, loaded |-> "absent", shown |-> <<>>,
   picked |-> NoName, prevPicked |-> NoName]

SimIdle == /\ ruleNum = 0
           /\ r = 0
           /\ prev = <<>>
           /\ curr = <<>>

InitFiles(n, tpl) ==
  /\ clock = n
  /\ library = <<Placeholder>> \o InitLibrary(n)
  /\ shownFile = InitShown(n)
  /\ displaySvg = (IF n = 0 THEN NoFile ELSE <<BuildSVGLabel(InitRule(n))>>)
  /\ template = tpl
  /\ readme = (IF n = 0 THEN NoFile ELSE Inject(GoodTemplate, InitRule(n)))
  /\ runs = 0
  /\ run = NoRun

Init ==
  /\ \E n \in InitSizes, tpl \in Templates : InitFiles(n, tpl)
  /\ SimIdle

\* ---- one invocation of the script, steps 1-7 ----
\* (\E over a one-element set names a value that the steps below share)
Run(newRule, now) ==
  /\ runs < MaxRuns
  /\ now < Pow10(TsDigits)
  /\ \E newFilename \in {NewFilename(newRule, now)} :
     \E written \in {WriteFile(library, newFilename, BuildSVGLabel(newRule))} :
     \E pr \in {Prune(Sort(SvgNames(written)))} :
     \E dir \in {Unlink(written, pr.pruned)} :
     \E shown \in {LoadShown(shownFile)} :
     \E pool \in {Pool(pr.files, shown)} :
     \E found \in {MarkersFound(template)} :
       /\ \E k \in 0..(RandSteps - 1) :
          \E picked \in {Picked(pool, k)} :
            /\ shownFile' = [kind |-> "json", arr |-> RecordShown(shown, picked)]
            /\ displaySvg' = <<BodyOf(dir, picked)>>
            /\ readme' = IF found THEN Inject(template, PickedRule(picked)) ELSE readme
            /\ run' = [status |-> IF found THEN "ok" ELSE "fatal",
                       exit |-> IF found THEN 0 ELSE 1,
                       newFilename |-> newFilename,
                       before |-> Len(SvgNames(library)),
                       pruned |-> pr.pruned,
                       loaded |-> shownFile.kind,
                       shown |-> shown,
                       picked |-> picked,
                       prevPicked |-> run.picked]
       /\ library' = dir
       /\ clock' = now
       /\ template' = template
       /\ runs' = runs + 1
       /\ UNCHANGED simvars

\* a run at a later instant than every earlier run
RunLater == \E newRule \in Rules : Run(newRule, clock + 1)

\* a run at any instant the wall clock can show, the instant of the latest run
\* included (new Date() has millisecond resolution)
RunAnyInstant == \E newRule \in Rules, now \in {clock, clock + 1} : Run(newRule, now)

\* shown.json is left unparseable between two runs (the case step 3 catches)
CorruptShown ==
  /\ shownFile.kind = "json"
  /\ runs < MaxRuns
  /\ shownFile' = [kind |-> "corrupt", arr |-> <<>>]
  /\ UNCHANGED <<clock, library, displaySvg, template, readme, runs, run>>
  /\ UNCHANGED simvars

Next == RunLater \/ CorruptShown

\* runs and what happens to shown.json between them
Spec == Init /\ [][Next]_vars

\* runs that may share an instant, over any initial library
InitClock ==
  /\ \E n \in InitSizes : InitFiles(n, GoodTemplate)
  /\ SimIdle

NextClock == RunAnyInstant

SpecClock == InitClock /\ [][NextClock]_vars

\* runs only, every one at a new instant, from a library no larger than the
\* runs from an empty one leave it
InitFresh ==
  /\ \E n \in {m \in InitSizes : m <= LIBRARY_CAP}, tpl \in Templates : InitFiles(n, tpl)
  /\ SimIdle

NextFresh == RunLater

SpecFresh == InitFresh /\ [][NextFresh]_vars

\* ---- buildSVG: the grid (lines 43-57) ----
RECURSIVE Pow2(_)
Pow2(n) == IF n = 0 THEN 1 ELSE 2 * Pow2(n - 1)

\* x >> n and x << n on non-negative integers
Shr(x, n) == x \div Pow2(n)

Shl(x, n) == x * Pow2(n)

\* x | y
RECURSIVE BitOr(_, _)
BitOr(x, y) ==
  IF x = 0 THEN y
  ELSE IF y = 0 THEN x
  ELSE 2 * BitOr(x \div 2, y \div 2) + (IF x % 2 = 1 \/ y % 2 = 1 THEN 1 ELSE 0)

\* x & 1
And1(x) == x % 2

\* for (i = 0; i < 8; i++) rulemap[i] = (ruleNum >> i) & 1
Rulemap(rule) == [i \in 0..7 |-> And1(Shr(rule, i))]

\* new Uint8Array(COLS)
ZeroRow == [c \in 0..(COLS - 1) |-> 0]

\* grid[0][Math.floor(COLS / 2)] = 1
SeedRow == [ZeroRow EXCEPT ![COLS \div 2] = 1]

\* mutant of NextCell: no wrap-around, a cell beyond an edge reads as 0
NextCellNoWrap(prevRow, rulemap, c) ==
  LET L == IF c = 0 THEN 0 ELSE prevRow[c - 1]
      C == prevRow[c]
      R == IF c = COLS - 1 THEN 0 ELSE prevRow[c + 1]
  IN  rulemap[BitOr(BitOr(Shl(L, 2), Shl(C, 1)), R)]

\* lines 52-55: one cell of row r from row r-1
NextCell(prevRow, rulemap, c) ==
  LET L == prevRow[(c - 1 + COLS) % COLS]
      C == prevRow[c]
      R == prevRow[(c + 1) % COLS]
  IN  rulemap[BitOr(BitOr(Shl(L, 2), Shl(C, 1)), R)]

NextRow(prevRow, rule) ==
  LET rulemap == Rulemap(rule)
  IN  [c \in 0..(COLS - 1) |-> NextCell(prevRow, rulemap, c)]

AllRules == 0..255

\* row 0 is seeded; no row precedes it
InitSim ==
  /\ ruleNum \in AllRules
  /\ r = 0
  /\ prev = <<>>
  /\ curr = SeedRow
  /\ InitFiles(0, GoodTemplate)

\* one iteration of for (r = 1; r < ROWS; r++)
StepRow ==
  /\ r + 1 < ROWS
  /\ r' = r + 1
  /\ prev' = curr
  /\ curr' = NextRow(curr, ruleNum)
  /\ UNCHANGED <<ruleNum, clock, library, shownFile, displaySvg, template, readme, runs, run>>

NextSim == StepRow

SpecSim == InitSim /\ [][NextSim]_vars

\* ---- the claims ----

\* what the claims read off a state
Ran == run.status # "none"

\* the artifacts in the library directory
LibraryNow == {library[i].name : i \in {j \in DOMAIN library : library[j].svg}}

\* the instant in an artifact's name: the digits after the '-'
CreatedAt(name) == ParseInt(SubSeq(name, Len(RuleDigits(name)) + 2, Len(name)))

\* the rule number in the marked region of a document
DocRule(doc) ==
  LET i == CHOOSE i \in DOMAIN doc : doc[i].kind = "image" IN doc[i].n

\* C1: after every generation cycle the library holds at most LIBRARY_CAP
\* artifacts, whatever it held before; when it held more than LIBRARY_CAP
\* before the cycle, exactly LIBRARY_CAP remain.
C1_LibraryCap ==
  Ran => /\ Cardinality(LibraryNow) <= LIBRARY_CAP
         /\ (run.before > LIBRARY_CAP => Cardinality(LibraryNow) = LIBRARY_CAP)

\* a cycle that found the library far above the cap and pruned several files
C1_Witness ==
  /\ Ran
  /\ run.before >= LIBRARY_CAP + 10
  /\ Len(run.pruned) > 10
  /\ Cardinality(LibraryNow) = LIBRARY_CAP

\* C2: the order of the names is the order of creation, so no artifact is
\* deleted while an artifact created before it remains in the library.
C2_PrunesOldest ==
  Ran => \A p \in ToSet(run.pruned) : \A f \in LibraryNow :
           ~(CreatedAt(f) < CreatedAt(p))

C4_PickedInLibrary ==
  Ran => /\ run.picked \in LibraryNow
         /\ run.picked \notin ToSet(run.pruned)
         /\ \E i \in DOMAIN library :
              /\ library[i].svg
              /\ library[i].name = run.picked
              /\ displaySvg = <<library[i].body>>

\* a run that pruned, the file it had just written among the pruned, and
\* published a survivor
C4_Witness ==
  /\ Ran
  /\ run.newFilename \in ToSet(run.pruned)
  /\ run.picked \in LibraryNow
  /\ displaySvg # NoFile

\* C5: when some library file is not in the loaded history, the picked file
\* is not in it; when every library file is in it, the pick is still a
\* library file and the run goes on to its end.
C5_PickAvoidsShown ==
  Ran => /\ run.picked \in LibraryNow
         /\ run.exit = 0
         /\ (LibraryNow \ ToSet(run.shown) # {}) => run.picked \notin ToSet(run.shown)

\* every library file was in the loaded history and one of them was picked
C5_Witness ==
  /\ Ran
  /\ LibraryNow # {}
  /\ LibraryNow \subseteq ToSet(run.shown)
  /\ run.picked \in LibraryNow
  /\ run.exit = 0

\* C6 as claimed: a run's pick differs from the pick of the run before it
\* unless the library at pick time has at most SHOWN_CAP members, also when
\* the run found the history unreadable.
C6_NoImmediateRepeat ==
  (Ran /\ run.prevPicked # NoName /\ Cardinality(LibraryNow) > SHOWN_CAP)
    => run.picked # run.prevPicked

\* C6 amended: a run that read the history the run before it saved picks a
\* different file than that run did, unless the library at pick time has at
\* most SHOWN_CAP members.
C6_NoRepeatWhenHistoryRead ==
  (Ran /\ run.prevPicked # NoName /\ run.loaded = "json"
       /\ Cardinality(LibraryNow) > SHOWN_CAP)
    => run.picked # run.prevPicked

\* a second run over a library above SHOWN_CAP that read the saved history,
\* in which the previous pick is the latest entry
C6_Witness ==
  /\ Ran
  /\ run.prevPicked # NoName
  /\ run.loaded = "json"
  /\ Cardinality(LibraryNow) > SHOWN_CAP
  /\ run.shown[Len(run.shown)] = run.prevPicked
  /\ run.prevPicked \in LibraryNow

\* C7: a run over a template that lacks the BEGIN or the END marker ends
\* with a non-zero exit status and leaves the destination document as it
\* was; no step changes the template.
C7_MissingMarkersFatal ==
  [][ /\ template' = template
      /\ (runs' = runs + 1 /\ ~({BEGIN_MARKER, END_MARKER} \subseteq ToSet(template)))
           => (run'.exit # 0 /\ readme' = readme) ]_vars

\* a run ended with the fatal error over a template without its END marker,
\* and the document of an earlier run is still there
C7_Witness ==
  /\ Ran
  /\ run.exit # 0
  /\ END_MARKER \notin ToSet(template)
  /\ readme # NoFile

\* C8: after every run, the fatal ones included, the rule number in the
\* document's marked region is the rule number of the artifact at the
\* display path.
C8_PublishedConsistent ==
  (Ran /\ readme # NoFile /\ displaySvg # NoFile) => DocRule(readme) = displaySvg[1]

\* C9: row 0 has exactly one active cell, at column floor(COLS/2), and every
\* cell of a later row is bit 4L+2C+R of the rule, L, C and R being the cells
\* of the row above at columns c-1, c and c+1 taken modulo COLS.
C9_SimulateRows ==
  /\ r = 0 => /\ Cardinality({c \in 0..(COLS - 1) : curr[c] = 1}) = 1
              /\ curr[COLS \div 2] = 1
              /\ \A c \in 0..(COLS - 1) : curr[c] \in {0, 1}
  /\ r >= 1 =>
       \A c \in 0..(COLS - 1) :
         LET left  == IF c = 0 THEN COLS - 1 ELSE c - 1
             right == IF c = COLS - 1 THEN 0 ELSE c + 1
             code  == 4 * prev[left] + 2 * prev[c] + prev[right]
         IN  curr[c] = (ruleNum \div Pow2(code)) % 2

\* an edge cell of a later row is set from its neighbour across the edge: with
\* no neighbour there, the code would be 3 and the cell 0
C9_Witness ==
  /\ r >= 1
  /\ prev[COLS - 1] = 1
  /\ prev[0] = 1
  /\ prev[1] = 1
  /\ (ruleNum \div 8) % 2 = 0
  /\ curr[0] = 1

\* C10: from an empty library and history, with every generated name new,
\* some library file is outside the history at every pick (the new file
\* survived the prune, or LIBRARY_CAP > SHOWN_CAP files did), so the pick is
\* never in the loaded history, which holds the last SHOWN_CAP picks.
C10_FallbackNeverTaken ==
  Ran => /\ LibraryNow \ ToSet(run.shown) # {}
         /\ run.picked \notin ToSet(run.shown)
         /\ (run.newFilename \in LibraryNow \/ Cardinality(LibraryNow) = LIBRARY_CAP)
         /\ Len(run.shown) <= SHOWN_CAP

\* the file a run generated was pruned in the same run, the history was
\* full, and the pick was still outside it
C10_Witness ==
  /\ Ran
  /\ run.newFilename \notin LibraryNow
  /\ Len(run.shown) = SHOWN_CAP
  /\ run.picked \notin ToSet(run.shown)

=============================================================================
